---- MODULE Spec2Model ----
(***************************************************************************)
(* A model of secret-proxy (src/src/main.rs): a single-hop reverse proxy   *)
(* that loads a YAML configuration, binds a socket, injects a bearer       *)
(* credential into every inbound request and forwards GET requests to one  *)
(* upstream.                                                               *)
(*                                                                         *)
(* Strings are sequences of bytes (natural numbers below 256), so that     *)
(* formatting, trimming and header-value validation are computed on the    *)
(* bytes as the program computes them.  Option<T> is a sequence of length  *)
(* at most one: None is <<>>, Some(v) is <<v>>.                            *)
(***************************************************************************)
EXTENDS Integers, Sequences, FiniteSets, TLC

VARIABLES
    pc,         \* position of main: see PcValues
    exit_code,  \* Option: the process exit status once it has terminated
    listener,   \* TRUE while the listening socket is bound
    contents,   \* Option: server_config_contents, the document read from the file
    state,      \* Option: the shared AppState's config (Arc<AppState>)
    stdout,     \* lines written to standard output, in order
    stderr,     \* lines written to standard error, in order
    req         \* the inbound requests, by arrival number

vars == <<pc, exit_code, listener, contents, state, stdout, stderr, req>>

\* Number of inbound requests a run accepts.
MaxReq == 2

None == <<>>
Some(v) == <<v>>

-----------------------------------------------------------------------------
(* Byte strings                                                            *)

S_Bearer == <<66, 101, 97, 114, 101, 114, 32>>                  \* "Bearer "
S_ProxyError == <<80, 114, 111, 120, 121, 32, 101, 114, 114, 111, 114, 58, 32>> \* "Proxy error: "
S_BackendUrl == <<98, 97, 99, 107, 101, 110, 100, 95, 117, 114, 108, 58>> \* "backend_url:"
S_OK == <<79, 75>>                                              \* "OK"
S_JsonData == <<123, 34, 100, 97, 116, 97, 34, 58, 34>>         \* {"data":"
S_JsonCode == <<34, 44, 34, 99, 111, 100, 101, 34, 58>>         \* ","code":
S_200 == <<50, 48, 48>>                                         \* 200
S_Close == <<125>>                                              \* }
S_Slash == <<47>>                                               \* "/"
S_Health == <<47, 104, 101, 97, 108, 116, 104>>                 \* "/health"
S_Config == <<47, 99, 111, 110, 102, 105, 103>>                 \* "/config"

RECURSIVE Concat(_)
Concat(ss) == IF ss = <<>> THEN <<>> ELSE Head(ss) \o Concat(Tail(ss))

IsPrefix(p, s) == Len(p) <= Len(s) /\ SubSeq(s, 1, Len(p)) = p

-----------------------------------------------------------------------------
(* Configuration                                                           *)

Config_default ==
    [ backend_url  |-> <<48, 46, 48, 46, 48, 46, 48>>,          \* "0.0.0.0"
      secret_token |-> <<109, 121, 45, 115, 101, 99, 114, 101, 116,
                         45, 116, 111, 107, 101, 110>>,          \* "my-secret-token"
      port         |-> 3000,
      extra_values |-> None ]

\* A configuration document: each recognised field is absent (None) or set;
\* unknown: the document has a key outside the recognised set;
\* malformed: the text is not a YAML mapping of the right shape.
Doc(bu, st, p, ev, unk, bad) ==
    [ backend_url |-> bu, secret_token |-> st, port |-> p, extra_values |-> ev,
      unknown |-> unk, malformed |-> bad ]

U_b == <<104, 116, 116, 112, 58, 47, 47, 98>>   \* "http://b"
T_ascii == <<115, 51>>                          \* "s3": visible ASCII
T_utf8 == <<115, 195, 169>>                     \* "s" followed by U+00E9 in UTF-8
T_ctl == <<115, 10>>                            \* "s" followed by a line feed
E_x == <<120>>                                  \* "x"

ConfigDocs ==
    { Doc(None, None, None, None, FALSE, FALSE),
      Doc(Some(U_b), Some(T_ascii), Some(8080), Some(E_x), FALSE, FALSE),
      Doc(Some(U_b), Some(T_utf8), None, None, FALSE, FALSE),
      Doc(None, Some(T_ctl), None, None, FALSE, FALSE),
      Doc(Some(U_b), None, Some(8080), None, FALSE, FALSE),
      Doc(Some(U_b), Some(T_ascii), None, None, TRUE, FALSE),
      Doc(None, None, None, None, FALSE, TRUE) }

\* serde_yaml::from_str with #[serde(default)] on each field in place of the
\* container: an absent field takes its type's default, not Config::default()'s
serde_yaml_from_str_field_default(doc) ==
    IF doc.malformed \/ doc.unknown THEN None
    ELSE Some([ f \in DOMAIN Config_default |->
                  IF f = "extra_values" THEN doc[f]
                  ELSE IF doc[f] # None THEN doc[f][1]
                  ELSE IF f = "port" THEN 0 ELSE <<>> ])

\* serde_yaml::from_str without deny_unknown_fields: an unknown key is ignored
serde_yaml_from_str_lenient(doc) ==
    IF doc.malformed THEN None
    ELSE Some([ f \in DOMAIN Config_default |->
                  IF f = "extra_values" THEN doc[f]
                  ELSE IF doc[f] = None THEN Config_default[f] ELSE doc[f][1] ])

\* serde_yaml::from_str::<Config> under #[serde(deny_unknown_fields, default)]:
\* Err on a malformed document or an unknown field, otherwise every absent
\* field takes its value from Config::default().
serde_yaml_from_str(doc) ==
    IF doc.malformed \/ doc.unknown THEN None
    ELSE Some([ f \in DOMAIN Config_default |->
                  IF f = "extra_values" THEN doc[f]
                  ELSE IF doc[f] = None THEN Config_default[f] ELSE doc[f][1] ])

-----------------------------------------------------------------------------
(* Headers: a map from header name to the non-empty sequence of its values *)

AUTHORIZATION == "authorization"
X_TRACE == "x-trace"

NoHeaders == [n \in {} |-> <<>>]

\* HeaderMap::append in place of insert: the values the name had are kept
HeaderMap_append(h, name, value) ==
    [n \in DOMAIN h \cup {name} |->
        IF n = name
        THEN (IF name \in DOMAIN h THEN Append(h[name], value) ELSE <<value>>)
        ELSE h[n]]

\* HeaderMap::insert: the value replaces every value the name had.
HeaderMap_insert(h, name, value) ==
    [n \in DOMAIN h \cup {name} |-> IF n = name THEN <<value>> ELSE h[n]]

\* HeaderMap::get: the first value of the name, if any.
HeaderMap_get(h, name) ==
    IF name \in DOMAIN h THEN Some(h[name][1]) ELSE None

\* http::header::value::is_valid, the test of HeaderValue::from_str
is_valid(b) == (b >= 32 /\ b # 127) \/ b = 9

\* http::header::value::is_visible_ascii, the test of HeaderValue::to_str
is_visible_ascii(b) == (b >= 32 /\ b < 127) \/ b = 9

\* HeaderValue::from_str(s): Ok exactly when every byte is_valid
HeaderValue_from_str(s) ==
    IF \A i \in 1..Len(s) : is_valid(s[i]) THEN Some(s) ELSE None

\* HeaderValue::to_str(v).ok(): Some exactly when every byte is visible ASCII
HeaderValue_to_str(v) ==
    IF \A i \in 1..Len(v) : is_visible_ascii(v[i]) THEN Some(v) ELSE None

-----------------------------------------------------------------------------
(* Requests                                                                *)

C_caller == <<66, 101, 97, 114, 101, 114, 32, 99>>  \* "Bearer c", sent by a caller
V_trace == <<55>>                                   \* "7"

\* What a caller sends: no header, or an Authorization of its own and X-Trace.
InboundHeaders ==
    { NoHeaders,
      [n \in {AUTHORIZATION, X_TRACE} |->
          IF n = AUTHORIZATION THEN <<C_caller>> ELSE <<V_trace>>] }

\* Inbound GET request targets: /health, /config, /, /a, /a/b//, //a/
InboundUris ==
    { S_Health, S_Config, S_Slash, <<47, 97>>, <<47, 97, 47, 98, 47, 47>>,
      <<47, 47, 97, 47>> }

\* The router of main: two exact routes and the wildcard /{*path}, which
\* matches "/" followed by a non-empty rest and captures the rest.
Route(uri) ==
    IF uri = S_Health THEN [handler |-> "health", path |-> <<>>]
    ELSE IF uri = S_Config THEN [handler |-> "config", path |-> <<>>]
    ELSE IF Len(uri) > 1 /\ uri[1] = 47
         THEN [handler |-> "proxy", path |-> Tail(uri)]
    ELSE [handler |-> "fallback", path |-> <<>>]

\* str::strip_suffix in place of trim_end_matches: one trailing c is removed
strip_one_suffix(s, c) ==
    IF s # <<>> /\ s[Len(s)] = c THEN SubSeq(s, 1, Len(s) - 1) ELSE s

\* str::trim_end_matches(c)
RECURSIVE trim_end_matches(_, _)
trim_end_matches(s, c) ==
    IF s # <<>> /\ s[Len(s)] = c
    THEN trim_end_matches(SubSeq(s, 1, Len(s) - 1), c)
    ELSE s

\* serde_json's string escaping, for the bytes the model uses
RECURSIVE json_escape(_)
json_escape(s) ==
    IF s = <<>> THEN <<>>
    ELSE (CASE Head(s) = 34 -> <<92, 34>>
            [] Head(s) = 92 -> <<92, 92>>
            [] Head(s) = 10 -> <<92, 110>>
            [] OTHER -> <<Head(s)>>) \o json_escape(Tail(s))

\* Json(ApiResponse { data, code: 200 }) serialised
ApiResponse(data) ==
    Concat(<<S_JsonData, json_escape(data), S_JsonCode, S_200, S_Close>>)

Response(status, body) == [status |-> status, body |-> body]

\* my_middleware handing the request on unchanged when the bearer string is
\* no header value, in place of the early return with `?`
my_middleware_lenient(cfg, headers) ==
    LET bearer_token == S_Bearer \o cfg.secret_token
        header_val == HeaderValue_from_str(bearer_token)
    IN  IF header_val = None THEN Some(headers)
        ELSE Some(HeaderMap_insert(headers, AUTHORIZATION, header_val[1]))

\* my_middleware up to next.run: Err(500) when the bearer string is no header
\* value, otherwise the request with Authorization replaced.
my_middleware(cfg, headers) ==
    LET bearer_token == S_Bearer \o cfg.secret_token
        header_val == HeaderValue_from_str(bearer_token)
    IN  IF header_val = None THEN None
        ELSE Some(HeaderMap_insert(headers, AUTHORIZATION, header_val[1]))

\* health answering StatusCode::OK in place of ACCEPTED
health_ok == Response(200, ApiResponse(S_OK))

\* config echoing the whole configuration in place of backend_url alone
config_with_token(cfg) ==
    Response(202, ApiResponse(Concat(<<S_BackendUrl, cfg.backend_url, S_Slash,
                                       cfg.secret_token>>)))

health == Response(202, ApiResponse(S_OK))

config(cfg) == Response(202, ApiResponse(S_BackendUrl \o cfg.backend_url))

\* proxy up to outgoing.send(): the outbound request it builds from the
\* captured path and the headers the middleware handed on.
proxy_outgoing(cfg, path, headers) ==
    LET auth_header ==
            IF HeaderMap_get(headers, AUTHORIZATION) = None THEN None
            ELSE HeaderValue_to_str(HeaderMap_get(headers, AUTHORIZATION)[1])
    IN  [ method  |-> "GET",
          url     |-> Concat(<<cfg.backend_url, S_Slash, trim_end_matches(path, 47)>>),
          headers |-> IF auth_header = None THEN NoHeaders
                      ELSE [n \in {AUTHORIZATION} |-> <<auth_header[1]>>] ]

\* What outgoing.send().await can yield: Ok(res) with a status, a body and
\* whether res.text() can read it, or Err(e) with e's Display text.
UpstreamOk(status, body, readable) ==
    [ok |-> TRUE, status |-> status, body |-> body, readable |-> readable, cause |-> <<>>]
UpstreamErr(cause) ==
    [ok |-> FALSE, status |-> 0, body |-> <<>>, readable |-> FALSE, cause |-> cause]

B_ok == <<111, 107>>                                         \* "ok"
B_not_found == <<110, 111, 116, 32, 102, 111, 117, 110, 100>> \* "not found"
B_oops == <<111, 111, 112, 115>>                             \* "oops"
E_refused == <<114, 101, 102, 117, 115, 101, 100>>           \* "refused"

UpstreamOutcomes ==
    { UpstreamOk(200, B_ok, TRUE),
      UpstreamOk(404, B_not_found, TRUE),
      UpstreamOk(500, B_oops, FALSE),
      UpstreamErr(E_refused) }

\* proxy relaying the upstream's status in place of StatusCode::OK
proxy_response_relayed(outcome) ==
    IF outcome.ok
    THEN Response(outcome.status, IF outcome.readable THEN outcome.body ELSE <<>>)
    ELSE Response(502, S_ProxyError \o outcome.cause)

\* proxy after outgoing.send().await: the match on the outcome
proxy_response(outcome) ==
    IF outcome.ok
    THEN Response(200, IF outcome.readable THEN outcome.body ELSE <<>>)
    ELSE Response(502, S_ProxyError \o outcome.cause)

-----------------------------------------------------------------------------
(* State                                                                   *)

PcValues == {"start", "args", "read", "configured", "serving", "draining", "exited"}

Idle == [ stage |-> "none", uri |-> <<>>, headers |-> NoHeaders, handler |-> "none",
          outbound |-> <<>>, outcome |-> None, response |-> None ]

Requests == 1..MaxReq

Init ==
    /\ pc = "start"
    /\ exit_code = None
    /\ listener = FALSE
    /\ contents = None
    /\ state = None
    /\ stdout = <<>>
    /\ stderr = <<>>
    /\ req = [r \in Requests |-> Idle]

\* std::process::exit(code), or the process ending with that status
Exit(code) ==
    /\ pc' = "exited"
    /\ exit_code' = Some(code)
    /\ listener' = FALSE

-----------------------------------------------------------------------------
(* main                                                                    *)

\* Args::try_parse()
ParseArgs ==
    /\ pc = "start"
    /\ \E ok \in BOOLEAN :
         IF ok
         THEN /\ pc' = "args"
              /\ UNCHANGED <<exit_code, listener, stdout>>
         ELSE /\ stdout' = Append(stdout, [line |-> "Error", text |-> None])
              /\ Exit(1)
    /\ UNCHANGED <<contents, state, stderr, req>>

\* std::fs::read_to_string(&args.config)
ReadConfig ==
    /\ pc = "args"
    /\ \/ \E doc \in ConfigDocs :
            /\ contents' = Some(doc)
            /\ pc' = "read"
            /\ UNCHANGED <<exit_code, listener, stderr>>
       \/ /\ stderr' = Append(stderr, [line |-> "Failed to read config file", text |-> None])
          /\ Exit(1)
          /\ UNCHANGED contents
    /\ UNCHANGED <<state, stdout, req>>

\* serde_yaml::from_str, println!(contents), Arc::new(AppState { .. }), Router::new()
ParseConfig ==
    /\ pc = "read"
    /\ LET parsed == serde_yaml_from_str(contents[1]) IN
         IF parsed = None
         THEN /\ stderr' = Append(stderr, [line |-> "Failed to parse file", text |-> None])
              /\ Exit(1)
              /\ UNCHANGED <<state, stdout>>
         ELSE /\ stdout' = Append(stdout, [line |-> "contents", text |-> contents])
              /\ state' = parsed
              /\ pc' = "configured"
              /\ UNCHANGED <<exit_code, listener, stderr>>
    /\ UNCHANGED <<contents, req>>

\* TcpListener::bind(..).await.unwrap(): a failed bind panics in main
Bind ==
    /\ pc = "configured"
    /\ \E ok \in BOOLEAN :
         IF ok
         THEN /\ listener' = TRUE
              /\ pc' = "serving"
              /\ UNCHANGED exit_code
         ELSE Exit(101)
    /\ UNCHANGED <<contents, state, stdout, stderr, req>>

\* shutdown_signal(): ctrl_c resolves; the server stops accepting
Interrupt ==
    /\ pc = "serving"
    /\ pc' = "draining"
    /\ stdout' = Append(stdout, [line |-> "Shutdown signal received", text |-> None])
    /\ UNCHANGED <<exit_code, listener, contents, state, stderr, req>>

\* serve returning at the interrupt without waiting for the requests in flight
Shutdown_abrupt ==
    /\ pc = "draining"
    /\ stdout' = Append(stdout, [line |-> "Server shut down gracefully", text |-> None])
    /\ Exit(0)
    /\ UNCHANGED <<contents, state, stderr, req>>

\* axum::serve(..).with_graceful_shutdown(..) returns once no request is in
\* flight; main prints the confirmation and returns.
Shutdown ==
    /\ pc = "draining"
    /\ \A r \in Requests : req[r].stage \notin {"sent", "hung"}
    /\ stdout' = Append(stdout, [line |-> "Server shut down gracefully", text |-> None])
    /\ Exit(0)
    /\ UNCHANGED <<contents, state, stderr, req>>

-----------------------------------------------------------------------------
(* Request handling                                                        *)

\* A server that handles one request at a time: r is accepted only when no
\* other request awaits the upstream
CanAccept_serial(r) ==
    /\ pc = "serving"
    /\ req[r].stage = "none"
    /\ \A q \in Requests : q < r => req[q].stage # "none"
    /\ \A q \in Requests : req[q].stage \notin {"sent", "hung"}

\* Request r can be accepted: the server is accepting and r is the next
\* arrival number.
CanAccept(r) ==
    /\ pc = "serving"
    /\ req[r].stage = "none"
    /\ \A q \in Requests : q < r => req[q].stage # "none"

\* The layered router of main, for a GET: my_middleware runs first on every
\* route and on the fallback; on Ok the matched handler runs.  The result is
\* the handler that ran, the outbound requests it sent and its response (None
\* while the proxy handler awaits outgoing.send()).
handle(cfg, uri, headers) ==
    LET mw == my_middleware(cfg, headers)
        route == Route(uri)
    IN  IF mw = None
        THEN [ handler |-> "none", outbound |-> <<>>,
               response |-> Some(Response(500, <<>>)) ]
        ELSE CASE route.handler = "health" ->
                    [ handler |-> "health", outbound |-> <<>>,
                      response |-> Some(health) ]
               [] route.handler = "config" ->
                    [ handler |-> "config", outbound |-> <<>>,
                      response |-> Some(config(cfg)) ]
               [] route.handler = "proxy" ->
                    [ handler |-> "proxy",
                      outbound |-> <<proxy_outgoing(cfg, route.path, mw[1])>>,
                      response |-> None ]
               [] OTHER ->
                    [ handler |-> "fallback", outbound |-> <<>>,
                      response |-> Some(Response(404, <<>>)) ]

\* The record of a request that arrived as GET uri with the given headers
\* and ran until it has its response or awaits the upstream.
Served(cfg, uri, headers) ==
    LET h == handle(cfg, uri, headers) IN
    [ stage |-> IF h.response = None THEN "sent" ELSE "done",
      uri |-> uri, headers |-> headers, handler |-> h.handler,
      outbound |-> h.outbound, outcome |-> None, response |-> h.response ]

\* my_middleware returns Err(StatusCode::INTERNAL_SERVER_ERROR): no handler runs
InjectFail(r) ==
    /\ CanAccept(r)
    /\ \E uri \in InboundUris, headers \in InboundHeaders :
         /\ handle(state[1], uri, headers).handler = "none"
         /\ req' = [req EXCEPT ![r] = Served(state[1], uri, headers)]
    /\ UNCHANGED <<pc, exit_code, listener, contents, state, stdout, stderr>>

\* GET /health through the middleware
Health(r) ==
    /\ CanAccept(r)
    /\ \E uri \in InboundUris, headers \in InboundHeaders :
         /\ handle(state[1], uri, headers).handler = "health"
         /\ req' = [req EXCEPT ![r] = Served(state[1], uri, headers)]
    /\ UNCHANGED <<pc, exit_code, listener, contents, state, stdout, stderr>>

\* GET /config through the middleware
ConfigEcho(r) ==
    /\ CanAccept(r)
    /\ \E uri \in InboundUris, headers \in InboundHeaders :
         /\ handle(state[1], uri, headers).handler = "config"
         /\ req' = [req EXCEPT ![r] = Served(state[1], uri, headers)]
    /\ UNCHANGED <<pc, exit_code, listener, contents, state, stdout, stderr>>

\* a GET that matches no route: the router's default 404
NotFound(r) ==
    /\ CanAccept(r)
    /\ \E uri \in InboundUris, headers \in InboundHeaders :
         /\ handle(state[1], uri, headers).handler = "fallback"
         /\ req' = [req EXCEPT ![r] = Served(state[1], uri, headers)]
    /\ UNCHANGED <<pc, exit_code, listener, contents, state, stdout, stderr>>

\* GET /{*path} through the middleware, up to outgoing.send()
ProxySend(r) ==
    /\ CanAccept(r)
    /\ \E uri \in InboundUris, headers \in InboundHeaders :
         /\ handle(state[1], uri, headers).handler = "proxy"
         /\ req' = [req EXCEPT ![r] = Served(state[1], uri, headers)]
    /\ UNCHANGED <<pc, exit_code, listener, contents, state, stdout, stderr>>

\* proxy sending the request again after a first transport failure
ProxyReturn_retry(r) ==
    /\ pc \in {"serving", "draining"}
    /\ req[r].stage = "sent"
    /\ \E outcome \in UpstreamOutcomes :
         IF ~outcome.ok /\ Len(req[r].outbound) = 1
         THEN req' = [req EXCEPT ![r].outbound = Append(@, @[1])]
         ELSE req' = [req EXCEPT ![r].stage = "done",
                                 ![r].outcome = Some(outcome),
                                 ![r].response = Some(proxy_response(outcome))]
    /\ UNCHANGED <<pc, exit_code, listener, contents, state, stdout, stderr>>

\* proxy remembering a transport failure: once a request has ended in one,
\* every later outcome is answered as that failure
ProxyReturn_breaker(r) ==
    /\ pc \in {"serving", "draining"}
    /\ req[r].stage = "sent"
    /\ \E outcome \in UpstreamOutcomes :
         LET failed == {q \in Requests : /\ req[q].outcome # None
                                         /\ ~req[q].outcome[1].ok}
             seen == IF failed = {} THEN outcome
                     ELSE req[CHOOSE q \in failed : TRUE].outcome[1]
         IN  req' = [req EXCEPT ![r].stage = "done",
                                ![r].outcome = Some(outcome),
                                ![r].response = Some(proxy_response(seen))]
    /\ UNCHANGED <<pc, exit_code, listener, contents, state, stdout, stderr>>

\* outgoing.send().await resolves; proxy maps the outcome to its response
ProxyReturn(r) ==
    /\ pc \in {"serving", "draining"}
    /\ req[r].stage = "sent"
    /\ \E outcome \in UpstreamOutcomes :
         req' = [req EXCEPT ![r].stage = "done",
                            ![r].outcome = Some(outcome),
                            ![r].response = Some(proxy_response(outcome))]
    /\ UNCHANGED <<pc, exit_code, listener, contents, state, stdout, stderr>>

\* The upstream takes the request and never answers: Client::new() sets no
\* timeout and proxy awaits outgoing.send() without one, so the await never
\* resolves and the request stays in flight.
UpstreamSilent(r) ==
    /\ pc \in {"serving", "draining"}
    /\ req[r].stage = "sent"
    /\ req' = [req EXCEPT ![r].stage = "hung"]
    /\ UNCHANGED <<pc, exit_code, listener, contents, state, stdout, stderr>>

Next ==
    \/ ParseArgs
    \/ ReadConfig
    \/ ParseConfig
    \/ Bind
    \/ Interrupt
    \/ Shutdown
    \/ \E r \in Requests : InjectFail(r)
    \/ \E r \in Requests : Health(r)
    \/ \E r \in Requests : ConfigEcho(r)
    \/ \E r \in Requests : NotFound(r)
    \/ \E r \in Requests : ProxySend(r)
    \/ \E r \in Requests : ProxyReturn(r)
    \/ \E r \in Requests : UpstreamSilent(r)

Spec == Init /\ [][Next]_vars

\* The runtime runs every step of main that is ready and resumes a handler
\* whose outgoing.send() has an outcome; arrivals, the interrupt and the
\* upstream's silence are the environment's and are not forced.
FairSpec ==
    /\ Spec
    /\ WF_vars(ParseArgs)
    /\ WF_vars(ReadConfig)
    /\ WF_vars(ParseConfig)
    /\ WF_vars(Bind)
    /\ WF_vars(Shutdown)
    /\ \A r \in Requests : WF_vars(ProxyReturn(r))

\* Every document over the field values of the model: each recognised field
\* absent or set, with or without an unknown key, well-formed or not.
AllDocs ==
    { Doc(bu, st, p, ev, unk, bad) :
        bu \in {None, Some(U_b)},
        st \in {None, Some(T_ascii), Some(T_utf8), Some(T_ctl)},
        p \in {None, Some(8080)},
        ev \in {None, Some(E_x)},
        unk \in BOOLEAN,
        bad \in BOOLEAN }

\* main after read_to_string has returned any of the documents
InitLoad ==
    /\ pc = "read"
    /\ exit_code = None
    /\ listener = FALSE
    /\ contents \in {Some(doc) : doc \in AllDocs}
    /\ state = None
    /\ stdout = <<>>
    /\ stderr = <<>>
    /\ req = [r \in Requests |-> Idle]

\* The configuration loader alone: main from the document read to the
\* configuration parsed or the exit.
SpecLoad == InitLoad /\ [][ParseConfig]_vars

-----------------------------------------------------------------------------
(* Properties                                                              *)

\* The requests the proxy handler ran for
Proxied == {r \in Requests : req[r].handler = "proxy"}

\* The values of the header name in a header map
Values(h, name) == IF name \in DOMAIN h THEN {h[name][i] : i \in 1..Len(h[name])} ELSE {}

\* The server's own bearer credential
Bearer == S_Bearer \o state[1].secret_token

\* C1: no outbound request of a proxied request carries an Authorization
\* value the caller supplied: whatever Authorization it carries is the
\* server's own bearer token.
C1_CallerAuthorizationNeverForwarded ==
    \A r \in Proxied : \A i \in 1..Len(req[r].outbound) :
        LET sent == Values(req[r].outbound[i].headers, AUTHORIZATION) IN
        /\ sent \cap Values(req[r].headers, AUTHORIZATION) = {}
        /\ sent \subseteq {Bearer}

\* C1 witness: a proxied request whose caller supplied an Authorization and
\* whose outbound request carries one.
C1_Witness ==
    \E r \in Proxied :
        /\ Values(req[r].headers, AUTHORIZATION) = {C_caller}
        /\ Len(req[r].outbound) = 1
        /\ Values(req[r].outbound[1].headers, AUTHORIZATION) # {}

\* C2: every outbound request carries exactly one Authorization value,
\* "Bearer " followed by the configured secret_token.
C2_EveryOutboundCarriesBearer ==
    \A r \in Requests : \A i \in 1..Len(req[r].outbound) :
        /\ AUTHORIZATION \in DOMAIN req[r].outbound[i].headers
        /\ req[r].outbound[i].headers[AUTHORIZATION] = <<Bearer>>

\* t is s with its trailing c's removed and nothing else changed
IsTrimmedOf(t, s, c) ==
    /\ IsPrefix(t, s)
    /\ \A i \in (Len(t) + 1)..Len(s) : s[i] = c
    /\ t = <<>> \/ t[Len(t)] # c

\* C3: a proxied request with captured path p has exactly one outbound
\* request, a GET of backend_url + "/" + p without its trailing slashes.
C3_OneOutboundGetOfTrimmedPath ==
    \A r \in Proxied :
        LET p == Tail(req[r].uri) IN
        /\ Len(req[r].outbound) = 1
        /\ req[r].outbound[1].method = "GET"
        /\ \E k \in 0..Len(p) :
             /\ IsTrimmedOf(SubSeq(p, 1, k), p, 47)
             /\ req[r].outbound[1].url =
                    state[1].backend_url \o S_Slash \o SubSeq(p, 1, k)

\* C3 witness: a completed proxied request whose path ends in two slashes
\* and has a slash inside.
C3_Witness ==
    \E r \in Proxied :
        /\ req[r].stage = "done"
        /\ req[r].uri = <<47, 97, 47, 98, 47, 47>>
        /\ req[r].outbound[1].url = state[1].backend_url \o <<47, 97, 47, 98>>

\* C4: when the upstream answered, whatever its status, the caller gets 200
\* and the upstream's body, or an empty body when the body cannot be read.
C4_UpstreamResponseIs200 ==
    \A r \in Proxied :
        (req[r].stage = "done" /\ req[r].outcome[1].ok) =>
            /\ req[r].response[1].status = 200
            /\ req[r].response[1].body =
                 IF req[r].outcome[1].readable THEN req[r].outcome[1].body ELSE <<>>

\* C4 witness: an upstream 404 "not found" answered to the caller as 200
\* "not found", and an unreadable upstream 500 answered as 200 with no body.
C4_Witness ==
    /\ \E r \in Proxied :
        /\ req[r].stage = "done"
        /\ req[r].outcome = Some(UpstreamOk(404, B_not_found, TRUE))
        /\ req[r].response = Some(Response(200, B_not_found))
    /\ \E r \in Proxied :
        /\ req[r].stage = "done"
        /\ req[r].outcome = Some(UpstreamOk(500, B_oops, FALSE))
        /\ req[r].response = Some(Response(200, <<>>))

\* C5: when the outbound attempt failed at the transport, the caller gets 502
\* with a body that begins "Proxy error: ", and at no time has a proxied
\* request more than one outbound request.
C5_TransportFailureIs502AfterOneAttempt ==
    \A r \in Proxied :
        /\ Len(req[r].outbound) = 1
        /\ (req[r].stage = "done" /\ ~req[r].outcome[1].ok) =>
              /\ req[r].response[1].status = 502
              /\ IsPrefix(S_ProxyError, req[r].response[1].body)

\* C5 witness: a proxied request answered 502 after a transport failure.
C5_Witness ==
    \E r \in Proxied :
        /\ req[r].stage = "done"
        /\ req[r].outcome = Some(UpstreamErr(E_refused))
        /\ req[r].response[1].status = 502

\* The body {"data":"OK","code":200}
HealthBody ==
    <<123, 34, 100, 97, 116, 97, 34, 58, 34, 79, 75, 34, 44,
      34, 99, 111, 100, 101, 34, 58, 50, 48, 48, 125>>

\* The completed requests for GET uri
Answered(uri) == {r \in Requests : req[r].stage = "done" /\ req[r].uri = uri}

\* A string that a header value can hold: no control byte but the tab
Encodable(s) == \A i \in 1..Len(s) : s[i] \notin ((0..31) \ {9}) \cup {127}

\* C6 as stated: every GET /health is answered 202 with the body
\* {"data":"OK","code":200} and sends nothing to the upstream.
C6_HealthAlways202 ==
    \A r \in Answered(S_Health) :
        /\ req[r].response = Some(Response(202, HealthBody))
        /\ req[r].outbound = <<>>

\* C6 amended: GET /health sends nothing to the upstream and is answered 202
\* with the body {"data":"OK","code":200} whenever "Bearer " + secret_token is
\* a header value; when it is not, the credential injector answers 500 with
\* an empty body.
C6_Health202UnlessInjectorFails ==
    \A r \in Answered(S_Health) :
        /\ req[r].outbound = <<>>
        /\ req[r].response =
             IF Encodable(state[1].secret_token)
             THEN Some(Response(202, HealthBody))
             ELSE Some(Response(500, <<>>))

\* C6 witness: GET /health answered 202 while another request awaits an
\* upstream that has not answered.
C6_Witness ==
    /\ \E r \in Answered(S_Health) : req[r].response[1].status = 202
    /\ \E q \in Requests : req[q].stage = "sent"

\* The body {"data":"backend_url:<url>","code":200}
ConfigBody(url) ==
    <<123, 34, 100, 97, 116, 97, 34, 58, 34,
      98, 97, 99, 107, 101, 110, 100, 95, 117, 114, 108, 58>> \o url \o
    <<34, 44, 34, 99, 111, 100, 101, 34, 58, 50, 48, 48, 125>>

\* The secret tokens a configuration can hold
SecretTokens == {Config_default.secret_token, T_ascii, T_utf8, T_ctl}

\* C7 as stated: the response to GET /config is the one every configuration
\* with the same backend_url and another secret_token gives.
C7_ConfigResponseIgnoresToken ==
    \A r \in Answered(S_Config) : \A t \in SecretTokens :
        handle([state[1] EXCEPT !.secret_token = t], req[r].uri,
               req[r].headers).response = req[r].response

\* C7 amended: the response to GET /config is the one every configuration
\* gives that has the same backend_url and a secret_token that agrees on
\* whether "Bearer " + secret_token is a header value; when it is one the
\* response is 202 with the body {"data":"backend_url:<backend_url>","code":200}.
C7_ConfigResponseIgnoresEncodableToken ==
    \A r \in Answered(S_Config) :
        /\ \A t \in SecretTokens :
             Encodable(t) = Encodable(state[1].secret_token) =>
                handle([state[1] EXCEPT !.secret_token = t], req[r].uri,
                       req[r].headers).response = req[r].response
        /\ Encodable(state[1].secret_token) =>
             req[r].response = Some(Response(202, ConfigBody(state[1].backend_url)))

\* C7 witness: GET /config answered 202 under a secret_token that is not the
\* default one.
C7_Witness ==
    \E r \in Answered(S_Config) :
        /\ req[r].response[1].status = 202
        /\ state[1].secret_token = T_ascii

\* C8: the outbound request's headers are the inbound request's headers with
\* Authorization set to the server's bearer token.
C8_OutboundHeadersAreInboundWithBearer ==
    \A r \in Proxied : \A i \in 1..Len(req[r].outbound) :
        req[r].outbound[i].headers =
            [n \in DOMAIN req[r].headers \cup {AUTHORIZATION} |->
                IF n = AUTHORIZATION THEN <<Bearer>> ELSE req[r].headers[n]]

\* The document read is one that does not parse
DocumentRejected ==
    contents # None /\ (contents[1].malformed \/ contents[1].unknown)

\* C9: while the socket is bound, and for every request served, the
\* configuration has been read and parsed; a run whose configuration could
\* not be read or was rejected has no bound socket and no request served.
C9_BindOnlyAfterConfigLoaded ==
    /\ (listener \/ \E r \in Requests : req[r].stage # "none") =>
          /\ contents # None
          /\ ~DocumentRejected
          /\ state # None
    /\ (stderr # <<>> \/ (DocumentRejected /\ pc # "read")) =>
          /\ pc = "exited"
          /\ ~listener
          /\ \A r \in Requests : req[r].stage = "none"

\* C9 witness: a run ended by a document with an unrecognised field.
C9_Witness ==
    /\ pc = "exited"
    /\ contents # None
    /\ contents[1].unknown
    /\ ~listener

\* The run ended by graceful shutdown
ShutDownGracefully ==
    \E i \in 1..Len(stdout) : stdout[i].line = "Server shut down gracefully"

\* C10: a terminated process has exit code 0 after graceful shutdown and exit
\* code 1 otherwise, and the server never serves once it has terminated.
C10_ExitCodes ==
    pc = "exited" =>
        /\ exit_code = IF ShutDownGracefully THEN Some(0) ELSE Some(1)
        /\ ~listener

\* The lifecycle in order; Running is "serving", Stopped is "exited"
Lifecycle ==
    <<"start", "args", "read", "configured", "serving", "draining", "exited">>

Rank(p) == CHOOSE i \in 1..Len(Lifecycle) : Lifecycle[i] = p

\* The requests awaiting the upstream
InFlight == {r \in Requests : req[r].stage \notin {"none", "done"}}

C12_InjectorFailureIs500 ==
    \A r \in Requests :
        (req[r].stage # "none" /\ ~Encodable(S_Bearer \o state[1].secret_token)) =>
            /\ req[r].stage = "done"
            /\ req[r].handler = "none"
            /\ req[r].outbound = <<>>
            /\ req[r].response = Some(Response(500, <<>>))
            /\ exit_code \in {None, Some(0)}
            /\ pc = "serving" => listener

\* C12 witness: a proxied path answered 500 by the injector, and a later
\* request served after it.
C12_Witness ==
    /\ req[1].stage = "done"
    /\ Route(req[1].uri).handler = "proxy"
    /\ req[1].response = Some(Response(500, <<>>))
    /\ req[2].stage = "done"
    /\ pc = "serving"

\* The document sets no unknown key and is well-formed
ValidDoc(d) == ~d.unknown /\ ~d.malformed

\* C13: a valid document loads, and the loaded configuration has each field
\* the document sets and, for each field it omits, backend_url "0.0.0.0",
\* secret_token "my-secret-token", port 3000, extra_values None.
C13_LoadedConfigIsDocMergedWithDefaults ==
    (pc # "read" /\ contents # None /\ ValidDoc(contents[1])) =>
        LET d == contents[1] IN
        /\ pc # "exited" \/ exit_code # Some(1)
        /\ state =
             Some([ backend_url  |-> IF d.backend_url = None
                                     THEN <<48, 46, 48, 46, 48, 46, 48>>
                                     ELSE d.backend_url[1],
                    secret_token |-> IF d.secret_token = None
                                     THEN <<109, 121, 45, 115, 101, 99, 114, 101, 116,
                                            45, 116, 111, 107, 101, 110>>
                                     ELSE d.secret_token[1],
                    port         |-> IF d.port = None THEN 3000 ELSE d.port[1],
                    extra_values |-> IF d.extra_values = None THEN <<>>
                                     ELSE <<d.extra_values[1]>> ])

\* C13 witness: a document that sets backend_url and port only has loaded.
C13_Witness ==
    /\ pc = "configured"
    /\ contents = Some(Doc(Some(U_b), None, Some(8080), None, FALSE, FALSE))
    /\ state # None
    /\ state[1].secret_token = Config_default.secret_token

\* C14: every request the server has accepted is eventually answered.
C14_EveryRequestAnswered ==
    \A r \in Requests : (req[r].stage # "none") ~> (req[r].stage = "done")

\* s contains t as a contiguous substring
Contains(s, t) ==
    \E i \in 0..(Len(s) - Len(t)) : SubSeq(s, i + 1, i + Len(t)) = t

\* The line shows the secret token: it is the echo of a document that sets it
LineShows(l, token) ==
    l.text # None /\ l.text[1].secret_token = Some(token)

\* C15: no response body and no line on standard output or standard error
\* contains the configured secret_token.
C15_SecretNeverExposed ==
    state # None =>
        /\ \A r \in Requests :
              req[r].response # None =>
                  ~Contains(req[r].response[1].body, state[1].secret_token)
        /\ \A i \in 1..Len(stdout) : ~LineShows(stdout[i], state[1].secret_token)
        /\ \A i \in 1..Len(stderr) : ~LineShows(stderr[i], state[1].secret_token)

\* The enabling condition of ProxySend(r): the server accepts r and some GET
\* reaches the proxy handler
ProxySendReady(r) ==
    /\ CanAccept(r)
    /\ \E uri \in InboundUris, headers \in InboundHeaders :
          handle(state[1], uri, headers).handler = "proxy"

\* C16: while other requests await their upstream, answered or not, a
\* Running server can take the next request to a proxied path and send its
\* outbound call, and a request whose upstream has an outcome can complete.
C16_RequestsIndependent ==
    \A r \in Requests :
        /\ ( /\ pc = "serving"
             /\ Encodable(state[1].secret_token)
             /\ req[r].stage = "none"
             /\ \A q \in Requests : q < r => req[q].stage # "none"
             /\ InFlight # {} )
              => ProxySendReady(r)
        /\ (pc \in {"serving", "draining"} /\ req[r].stage = "sent")
              => ENABLED ProxyReturn(r)

\* C16 witness: the first request's upstream never answers and the second
\* request, accepted after it, has been proxied and answered.
C16_Witness ==
    /\ req[1].stage = "hung"
    /\ req[2].stage = "done"
    /\ req[2].handler = "proxy"
    /\ req[2].response[1].status = 200

\* The response the code gives a request from what is its own: the
\* configuration, its URI, its headers and the outcome of its outbound call
OwnResponse(cfg, q) ==
    LET h == handle(cfg, q.uri, q.headers) IN
    IF h.response # None THEN h.response
    ELSE Some(proxy_response(q.outcome[1]))

\* C17: no step changes the configuration once it is constructed or the
\* record of an answered request, and the response a step gives a request is
\* the one its own URI, headers and upstream outcome determine under that
\* configuration, whatever the other requests were and however they ended.
C17_FailuresLeaveNoTrace ==
    [][ /\ state # None => state' = state
        /\ \A r \in Requests :
              /\ req[r].stage = "done" => req'[r] = req[r]
              /\ (req[r].response = None /\ req'[r].response # None) =>
                    req'[r].response = OwnResponse(state'[1], req'[r]) ]_vars

\* C17 witness: the first request ended in a transport failure and the
\* second, proxied after it, has the upstream's answer.
C17_Witness ==
    /\ req[1].response # None
    /\ req[1].response[1].status = 502
    /\ req[2].handler = "proxy"
    /\ req[2].outcome = Some(UpstreamOk(200, B_ok, TRUE))
    /\ req[2].response = Some(Response(200, B_ok))

\* C18: once the interrupt is observed the process eventually stops with
\* status 0, the confirmation being the last line it printed.
C18_InterruptLeadsToStopped ==
    (pc = "draining") ~>
        ( /\ pc = "exited"
          /\ exit_code = Some(0)
          /\ stdout # <<>>
          /\ stdout[Len(stdout)].line = "Server shut down gracefully" )

\* C19: every answered GET of a path other than /health and /config has
\* status 200, 502 or 500: 500 exactly when "Bearer " + secret_token is no
\* header value, 502 exactly when its outbound call failed at the transport
\* level, 200 otherwise.
C19_ProxiedStatusIs200Or502Or500 ==
    \A r \in Requests :
        (req[r].stage = "done" /\ req[r].uri \notin {S_Health, S_Config}) =>
            LET status == req[r].response[1].status
                failed == req[r].outcome # None /\ ~req[r].outcome[1].ok
            IN  /\ status \in {200, 502, 500}
                /\ status = 500 <=> ~Encodable(S_Bearer \o state[1].secret_token)
                /\ status = 502 <=> failed

====
